---- MODULE Spec2Model ----
(***************************************************************************)
(* Devi Mantras API (src/main.py, the live code from line 313 on): the      *)
(* mantras and events collections, the request handlers that read and      *)
(* write them, and the helpers they share.                                 *)
(*                                                                         *)
(* Values.  A Python str is a sequence of one-character strings, bytes is  *)
(* a sequence of byte tokens, a MIME type is a one-token sequence, and     *)
(* Python's None is the one-token sequence None.  A stored document is a   *)
(* function from its keys to such values: a key that the document does not *)
(* have is not in its DOMAIN.  An ObjectId is a natural number; its string *)
(* form is 24 hex characters.                                              *)
(***************************************************************************)
EXTENDS Integers, Sequences, FiniteSets, TLC

VARIABLES mantras, events, nextId, deleted, resp, contacts, feedback, admin, pending

vars == <<mantras, events, nextId, deleted, resp, contacts, feedback, admin, pending>>

\* What the handlers of the mantras and events collections leave alone.
others == <<contacts, feedback, admin, pending>>

(***************************************************************************)
(* Bounds of the model.                                                    *)
(***************************************************************************)
MaxIds == 2

\* The first ObjectId the driver hands out (any value; this one has a hex letter).
FirstId == 10

(***************************************************************************)
(* Python values.                                                          *)
(***************************************************************************)
None == <<"None">>

\* Python truthiness of None, "" and b"": `if x`, `x or y`, `not x`.
Truthy(v) == v # None /\ v # <<>>

Or(a, b) == IF Truthy(a) THEN a ELSE b

Whitespace == {" ", "\t", "\n", "\r"}

LowerChars == <<"a", "b", "c", "d", "e", "f", "g", "h", "i", "j", "k", "l", "m",
                "n", "o", "p", "q", "r", "s", "t", "u", "v", "w", "x", "y", "z">>
UpperChars == <<"A", "B", "C", "D", "E", "F", "G", "H", "I", "J", "K", "L", "M",
                "N", "O", "P", "Q", "R", "S", "T", "U", "V", "W", "X", "Y", "Z">>

IndexIn(c, s) == IF \E i \in 1..Len(s) : s[i] = c
                 THEN CHOOSE i \in 1..Len(s) : s[i] = c
                 ELSE 0

ToUpper == [c \in {LowerChars[i] : i \in 1..Len(LowerChars)} |-> UpperChars[IndexIn(c, LowerChars)]]
ToLower == [c \in {UpperChars[i] : i \in 1..Len(UpperChars)} |-> LowerChars[IndexIn(c, UpperChars)]]

UpperChar(c) == IF c \in DOMAIN ToUpper THEN ToUpper[c] ELSE c
LowerChar(c) == IF c \in DOMAIN ToLower THEN ToLower[c] ELSE c

\* str.upper() and str.lower()
Upper(s) == [i \in 1..Len(s) |-> UpperChar(s[i])]
Lower(s) == [i \in 1..Len(s) |-> LowerChar(s[i])]

RECURSIVE LStrip(_)
LStrip(s) == IF s # <<>> /\ Head(s) \in Whitespace THEN LStrip(Tail(s)) ELSE s

RECURSIVE RStrip(_)
RStrip(s) == IF s # <<>> /\ s[Len(s)] \in Whitespace
             THEN RStrip(SubSeq(s, 1, Len(s) - 1))
             ELSE s

\* str.strip()
Strip(s) == RStrip(LStrip(s))

(***************************************************************************)
(* Helpers (src/main.py 358-400).                                          *)
(***************************************************************************)
LALITA_DEVI == <<"L", "A", "L", "I", "T", "A", " ", "D", "E", "V", "I">>
TITHINITYA_DEVI == <<"T", "I", "T", "H", "I", "N", "I", "T", "Y", "A", " ", "D", "E", "V", "I">>
BALA_TRIPURA_SUNDARI == <<"B", "A", "L", "A", " ", "T", "R", "I", "P", "U", "R", "A", " ",
                          "S", "U", "N", "D", "A", "R", "I">>
KALI == <<"K", "A", "L", "I">>
LAKSHMI == <<"L", "A", "K", "S", "H", "M", "I">>
SARASWATHI == <<"S", "A", "R", "A", "S", "W", "A", "T", "H", "I">>

ALLOWED_CATEGORIES ==
    {LALITA_DEVI, TITHINITYA_DEVI, BALA_TRIPURA_SUNDARI, KALI, LAKSHMI, SARASWATHI}

\* raise HTTPException(status_code, detail) / a returned value
Raise(code, detail) == [ok |-> FALSE, status |-> code, detail |-> detail]
Return(v) == [ok |-> TRUE, value |-> v]

normalize_category_nostrip(cat) ==
    IF ~Truthy(cat) THEN Raise(400, "Category is required")
    ELSE IF Upper(cat) \notin ALLOWED_CATEGORIES THEN Raise(400, "Invalid category")
    ELSE Return(Upper(cat))

normalize_category_unchecked(cat) ==
    IF ~Truthy(cat) THEN Raise(400, "Category is required")
    ELSE Return(Upper(Strip(cat)))

normalize_category(cat) ==
    IF ~Truthy(cat) THEN Raise(400, "Category is required")
    ELSE IF Upper(Strip(cat)) \notin ALLOWED_CATEGORIES THEN Raise(400, "Invalid category")
    ELSE Return(Upper(Strip(cat)))

\* dict.get(k), dict.get(k, default), dict.update(other), {"$set": upd}
Get(doc, k) == IF k \in DOMAIN doc THEN doc[k] ELSE None
GetDefault(doc, k, d) == IF k \in DOMAIN doc THEN doc[k] ELSE d
Update(doc, upd) == upd @@ doc
Without(doc, keys) == [k \in DOMAIN doc \ keys |-> doc[k]]

\* mimetypes.guess_type(filename)[0]: the type of the extension after the last
\* dot (a leading dot starts no extension), looked up case-insensitively.
LastDot(s) == IF \E i \in 2..Len(s) : s[i] = "."
              THEN CHOOSE i \in 2..Len(s) : s[i] = "." /\ \A j \in (i + 1)..Len(s) : s[j] # "."
              ELSE 0

types_map(ext) ==
    CASE ext = <<"p", "n", "g">> -> <<"image/png">>
      [] ext = <<"p", "d", "f">> -> <<"application/pdf">>
      [] ext = <<"m", "p", "3">> -> <<"audio/mpeg">>
      [] ext = <<"t", "x", "t">> -> <<"text/plain">>
      [] OTHER -> None

guess_type(filename) ==
    IF LastDot(filename) = 0 THEN None
    ELSE types_map(Lower(SubSeq(filename, LastDot(filename) + 1, Len(filename))))

guess_mime(filename, default) ==
    IF ~Truthy(filename) THEN default ELSE Or(guess_type(filename), default)

\* bson.ObjectId(str): 24 hex characters, either case; str(ObjectId): lower case.
OID_LEN == 24

HexDigits == <<"0", "1", "2", "3", "4", "5", "6", "7", "8", "9", "a", "b", "c", "d", "e", "f">>

\* int(c, 16) of every character that has one
HexValue == [c \in {HexDigits[i] : i \in 1..16} \cup {UpperChar(HexDigits[i]) : i \in 1..16} |->
                IndexIn(LowerChar(c), HexDigits) - 1]

IsHex(c) == c \in DOMAIN HexValue

RECURSIVE HexStr(_, _)
HexStr(n, width) ==
    IF width = 0 THEN <<>> ELSE HexStr(n \div 16, width - 1) \o <<HexDigits[(n % 16) + 1]>>

\* the number that the first n characters of s spell in hex
RECURSIVE HexPrefix(_, _)
HexPrefix(s, n) == IF n = 0 THEN 0 ELSE 16 * HexPrefix(s, n - 1) + HexValue[s[n]]

HexVal(s) == HexPrefix(s, Len(s))

OidStr(oid) == HexStr(oid, OID_LEN)

ensure_oid_lenient(oid_str) ==
    IF \A i \in 1..Len(oid_str) : IsHex(oid_str[i])
    THEN Return(HexVal(oid_str))
    ELSE Raise(400, "Invalid ID")

ensure_oid(oid_str) ==
    IF Len(oid_str) = OID_LEN /\ \A i \in 1..Len(oid_str) : IsHex(oid_str[i])
    THEN Return(HexVal(oid_str))
    ELSE Raise(400, "Invalid ID")

safe_pop_media(doc) == Without(doc, {"image", "pdf", "audio"})

Url(collection, id, slot) == <<"/", collection, "/">> \o id \o <<"/", slot>>

attach_file_urls(doc) ==
    LET id == OidStr(doc["_id"])
        d0 == [doc EXCEPT !["_id"] = id]
        d1 == IF "image_filename" \in DOMAIN d0
              THEN Update(d0, "image_url" :> Url("mantras", id, "image")) ELSE d0
        d2 == IF "pdf_filename" \in DOMAIN d1
              THEN Update(d1, "pdf_url" :> Url("mantras", id, "pdf")) ELSE d1
        d3 == IF "audio_filename" \in DOMAIN d2
              THEN Update(d2, "audio_url" :> Url("mantras", id, "audio")) ELSE d2
    IN d3

(***************************************************************************)
(* The store: a collection is a function from ObjectIds to documents.      *)
(***************************************************************************)
\* collection.find_one({"_id": oid}): the document with its _id, or None
Found(coll, oid) == oid \in DOMAIN coll
find_one(coll, oid) == Update(coll[oid], "_id" :> oid)

\* collection.insert_one(doc) with the driver's fresh ObjectId
insert_one(coll, oid, doc) == (oid :> doc) @@ coll

\* collection.update_one / find_one_and_update({"_id": oid}, {"$set": upd}): no upsert
update_one(coll, oid, upd) ==
    IF oid \in DOMAIN coll THEN [coll EXCEPT ![oid] = Update(coll[oid], upd)] ELSE coll

\* collection.delete_one({"_id": oid})
delete_one(coll, oid) == [i \in DOMAIN coll \ {oid} |-> coll[i]]

\* .sort([("_id", -1)]): the ids of a collection, largest first
RECURSIVE SortedIdsDesc(_)
SortedIdsDesc(ids) ==
    IF ids = {} THEN <<>>
    ELSE LET m == CHOOSE i \in ids : \A j \in ids : j <= i
         IN <<m>> \o SortedIdsDesc(ids \ {m})

\* An UploadFile parameter: File(None) left out, or a file part of the form.
NoFile == [supplied |-> FALSE]
UploadFile(filename, content_type, data) ==
    [supplied |-> TRUE, filename |-> filename, content_type |-> content_type, data |-> data]

\* No update_event request is between its read and its write.
Idle == [stage |-> "idle"]

\* What a handler hands back: the collection after it, the HTTP status, the
\* detail of an HTTPException or the body of a success, and the store calls issued.
Result(coll, status, detail, body, calls) ==
    [coll |-> coll, status |-> status, detail |-> detail, body |-> body, calls |-> calls]

(***************************************************************************)
(* Mantras: CRUD + list (src/main.py 433-558).  Each handler is an         *)
(* operator from the collection and the request to a Result.               *)
(***************************************************************************)
upload_mantra(coll, new_id, mantra_name, language, description, category, image, pdf, audio) ==
    LET norm_cat == normalize_category(category)
        audio_data == IF audio.supplied THEN audio.data ELSE None
        mantra ==
            [name |-> Strip(mantra_name),
             language |-> Strip(language),
             description |-> Strip(description),
             category |-> norm_cat.value,
             image |-> image.data,
             image_filename |-> image.filename,
             image_content_type |->
                 Or(image.content_type, guess_mime(image.filename, <<"image/jpeg">>)),
             pdf |-> pdf.data,
             pdf_filename |-> pdf.filename,
             pdf_content_type |-> Or(pdf.content_type, <<"application/pdf">>),
             audio |-> IF Truthy(audio_data) THEN audio_data ELSE None,
             audio_filename |-> IF audio.supplied THEN audio.filename ELSE None,
             audio_content_type |-> IF audio.supplied THEN audio.content_type ELSE None]
    IN IF ~norm_cat.ok
       THEN Result(coll, norm_cat.status, norm_cat.detail, <<>>, <<>>)
       ELSE Result(insert_one(coll, new_id, mantra), 200, "Mantra uploaded successfully",
                   [id |-> OidStr(new_id)], <<"insert_one">>)

list_mantras(coll) ==
    LET ids == SortedIdsDesc(DOMAIN coll)
        docs == [i \in 1..Len(ids) |-> safe_pop_media(find_one(coll, ids[i]))]
    IN Result(coll, 200, "", [i \in 1..Len(docs) |-> attach_file_urls(docs[i])], <<"find">>)

get_mantra(coll, mantra_id) ==
    LET oid == ensure_oid(mantra_id)
    IN IF ~oid.ok THEN Result(coll, oid.status, oid.detail, <<>>, <<>>)
       ELSE IF ~Found(coll, oid.value)
       THEN Result(coll, 404, "Mantra not found", <<>>, <<"find_one">>)
       ELSE Result(coll, 200, "", attach_file_urls(safe_pop_media(find_one(coll, oid.value))),
                   <<"find_one">>)

\* The three attachment getters differ in the slot, the 404 detail and the default type.
get_file(coll, id_str, slot, not_found, default_type) ==
    LET oid == ensure_oid(id_str)
    IN IF ~oid.ok THEN Result(coll, oid.status, oid.detail, <<>>, <<>>)
       ELSE IF ~Found(coll, oid.value) \/ ~Truthy(Get(find_one(coll, oid.value), slot))
       THEN Result(coll, 404, not_found, <<>>, <<"find_one">>)
       ELSE LET doc == find_one(coll, oid.value)
            IN Result(coll, 200, "",
                      [content |-> doc[slot],
                       media_type |-> GetDefault(doc, slot \o "_content_type", default_type)],
                      <<"find_one">>)
get_mantra_image(coll, mantra_id) ==
    get_file(coll, mantra_id, "image", "Image not found", <<"image/jpeg">>)

get_mantra_pdf(coll, mantra_id) ==
    get_file(coll, mantra_id, "pdf", "PDF not found", <<"application/pdf">>)

get_mantra_audio(coll, mantra_id) ==
    get_file(coll, mantra_id, "audio", "Audio not found", <<"audio/mpeg">>)

\* update_fields.update({slot: Binary(data), slot_filename: ..., slot_content_type: ...})
\* under `if file:`, which every supplied UploadFile passes.
FileFields(file, slot, fallback) ==
    IF file.supplied
    THEN (slot :> file.data)
         @@ ((slot \o "_filename") :> file.filename)
         @@ ((slot \o "_content_type") :> Or(file.content_type, fallback))
    ELSE <<>>

\* find_one_and_replace in place of {"$set": update_fields}
edit_mantra_replace(coll, mantra_id, mantra_name, language, description, category, image, pdf, audio) ==
    LET oid == ensure_oid(mantra_id)
        norm_cat == normalize_category(category)
        update_fields ==
            Update(Update(Update(
                [name |-> Strip(mantra_name),
                 language |-> Strip(language),
                 description |-> Strip(description),
                 category |-> norm_cat.value],
                FileFields(image, "image", <<"image/jpeg">>)),
                FileFields(pdf, "pdf", <<"application/pdf">>)),
                FileFields(audio, "audio", <<"audio/mpeg">>))
    IN IF ~oid.ok THEN Result(coll, oid.status, oid.detail, <<>>, <<>>)
       ELSE IF ~norm_cat.ok THEN Result(coll, norm_cat.status, norm_cat.detail, <<>>, <<>>)
       ELSE IF ~Found(coll, oid.value)
       THEN Result(coll, 404, "Mantra not found", <<>>, <<"find_one_and_update">>)
       ELSE LET after == [coll EXCEPT ![oid.value] = update_fields]
            IN Result(after, 200, "Mantra updated successfully",
                      attach_file_urls(safe_pop_media(find_one(after, oid.value))),
                      <<"find_one_and_update">>)

\* find_one_and_update(..., upsert=True)
edit_mantra_upsert(coll, mantra_id, mantra_name, language, description, category, image, pdf, audio) ==
    LET oid == ensure_oid(mantra_id)
        norm_cat == normalize_category(category)
        update_fields ==
            Update(Update(Update(
                [name |-> Strip(mantra_name),
                 language |-> Strip(language),
                 description |-> Strip(description),
                 category |-> norm_cat.value],
                FileFields(image, "image", <<"image/jpeg">>)),
                FileFields(pdf, "pdf", <<"application/pdf">>)),
                FileFields(audio, "audio", <<"audio/mpeg">>))
    IN IF ~oid.ok THEN Result(coll, oid.status, oid.detail, <<>>, <<>>)
       ELSE IF ~norm_cat.ok THEN Result(coll, norm_cat.status, norm_cat.detail, <<>>, <<>>)
       ELSE LET after == IF Found(coll, oid.value)
                         THEN update_one(coll, oid.value, update_fields)
                         ELSE insert_one(coll, oid.value, update_fields)
            IN Result(after, 200, "Mantra updated successfully",
                      attach_file_urls(safe_pop_media(find_one(after, oid.value))),
                      <<"find_one_and_update">>)

edit_mantra(coll, mantra_id, mantra_name, language, description, category, image, pdf, audio) ==
    LET oid == ensure_oid(mantra_id)
        norm_cat == normalize_category(category)
        update_fields ==
            Update(Update(Update(
                [name |-> Strip(mantra_name),
                 language |-> Strip(language),
                 description |-> Strip(description),
                 category |-> norm_cat.value],
                FileFields(image, "image", <<"image/jpeg">>)),
                FileFields(pdf, "pdf", <<"application/pdf">>)),
                FileFields(audio, "audio", <<"audio/mpeg">>))
    IN IF ~oid.ok THEN Result(coll, oid.status, oid.detail, <<>>, <<>>)
       ELSE IF ~norm_cat.ok THEN Result(coll, norm_cat.status, norm_cat.detail, <<>>, <<>>)
       ELSE IF ~Found(coll, oid.value)
       THEN Result(coll, 404, "Mantra not found", <<>>, <<"find_one_and_update">>)
       ELSE LET after == update_one(coll, oid.value, update_fields)
            IN Result(after, 200, "Mantra updated successfully",
                      attach_file_urls(safe_pop_media(find_one(after, oid.value))),
                      <<"find_one_and_update">>)

delete_mantra(coll, mantra_id) ==
    LET oid == ensure_oid(mantra_id)
    IN IF ~oid.ok THEN Result(coll, oid.status, oid.detail, <<>>, <<>>)
       ELSE IF ~Found(coll, oid.value)
       THEN Result(coll, 404, "Mantra not found", <<>>, <<"delete_one">>)
       ELSE Result(delete_one(coll, oid.value), 200, "Mantra deleted successfully", <<>>,
                   <<"delete_one">>)

(***************************************************************************)
(* Events: CRUD (src/main.py 564-667).                                     *)
(***************************************************************************)
create_event(coll, new_id, name, description, image, pdf) ==
    LET event ==
            Update(Update(
                [name |-> Strip(name), description |-> Strip(description)],
                FileFields(image, "image", <<"image/jpeg">>)),
                FileFields(pdf, "pdf", <<"application/pdf">>))
    IN IF ~Truthy(Strip(name))
       THEN Result(coll, 400, "Event name is required", <<>>, <<>>)
       ELSE Result(insert_one(coll, new_id, event), 200, "Event created successfully",
                   [id |-> OidStr(new_id)], <<"insert_one">>)

\* One entry of list_events: the loop body over a document found without image and pdf.
event_entry(doc) ==
    LET id == OidStr(doc["_id"])
        e0 == [doc EXCEPT !["_id"] = id]
        e1 == Update(e0, "image_url" :> IF Truthy(Get(e0, "image_filename"))
                                         THEN Url("events", id, "image") ELSE None)
        e2 == Update(e1, "pdf_url" :> IF Truthy(Get(e1, "pdf_filename"))
                                       THEN Url("events", id, "pdf") ELSE None)
    IN IF ~Truthy(Get(e2, "description")) /\ ~Truthy(Get(e2, "image_filename"))
          /\ ~Truthy(Get(e2, "pdf_filename"))
       THEN Update(e2, "status" :> <<"Upcoming Event">>)
       ELSE e2

list_events(coll) ==
    LET ids == SortedIdsDesc(DOMAIN coll)
    IN Result(coll, 200, "",
              [i \in 1..Len(ids) |-> event_entry(Without(find_one(coll, ids[i]), {"image", "pdf"}))],
              <<"find">>)

get_event_image(coll, event_id) ==
    get_file(coll, event_id, "image", "Image not found", <<"image/jpeg">>)

get_event_pdf(coll, event_id) ==
    get_file(coll, event_id, "pdf", "PDF not found", <<"application/pdf">>)

\* `if description is not None` in place of `if description and description.strip()`
update_event_blank(coll, event_id, name, description, image, pdf) ==
    LET oid == ensure_oid(event_id)
        d0 == <<>>
        d1 == IF Truthy(name) /\ Truthy(Strip(name))
              THEN Update(d0, "name" :> Strip(name)) ELSE d0
        d2 == IF description # None
              THEN Update(d1, "description" :> Strip(description)) ELSE d1
        d3 == Update(d2, FileFields(image, "image", <<"image/jpeg">>))
        update_data == Update(d3, FileFields(pdf, "pdf", <<"application/pdf">>))
    IN IF ~oid.ok THEN Result(coll, oid.status, oid.detail, <<>>, <<>>)
       ELSE IF ~Found(coll, oid.value)
       THEN Result(coll, 404, "Event not found", <<>>, <<"find_one">>)
       ELSE IF DOMAIN update_data = {}
       THEN Result(coll, 400, "No update data provided", <<>>, <<"find_one">>)
       ELSE Result(update_one(coll, oid.value, update_data), 200,
                   "Event updated successfully", <<>>, <<"find_one", "update_one">>)

update_event(coll, event_id, name, description, image, pdf) ==
    LET oid == ensure_oid(event_id)
        d0 == <<>>
        d1 == IF Truthy(name) /\ Truthy(Strip(name))
              THEN Update(d0, "name" :> Strip(name)) ELSE d0
        d2 == IF Truthy(description) /\ Truthy(Strip(description))
              THEN Update(d1, "description" :> Strip(description)) ELSE d1
        d3 == Update(d2, FileFields(image, "image", <<"image/jpeg">>))
        update_data == Update(d3, FileFields(pdf, "pdf", <<"application/pdf">>))
    IN IF ~oid.ok THEN Result(coll, oid.status, oid.detail, <<>>, <<>>)
       ELSE IF ~Found(coll, oid.value)
       THEN Result(coll, 404, "Event not found", <<>>, <<"find_one">>)
       ELSE IF DOMAIN update_data = {}
       THEN Result(coll, 400, "No update data provided", <<>>, <<"find_one">>)
       ELSE Result(update_one(coll, oid.value, update_data), 200,
                   "Event updated successfully", <<>>, <<"find_one", "update_one">>)

delete_event(coll, event_id) ==
    LET oid == ensure_oid(event_id)
    IN IF ~oid.ok THEN Result(coll, oid.status, oid.detail, <<>>, <<>>)
       ELSE IF ~Found(coll, oid.value)
       THEN Result(coll, 404, "Event not found", <<>>, <<"delete_one">>)
       ELSE Result(delete_one(coll, oid.value), 200, "Event deleted successfully", <<>>,
                   <<"delete_one">>)

(***************************************************************************)
(* update_event as its two store calls (src/main.py 630-659).  The handler *)
(* is a coroutine that issues find_one, awaits the reads of the files and  *)
(* then issues update_one; delete_event runs on a worker thread, so its    *)
(* delete_one can reach the store between the two.                         *)
(***************************************************************************)
\* Lines 630-656: up to and including the `if not update_data` test.  The outcome is
\* an HTTPException, or the update_one still to be issued.
update_event_find(coll, event_id, name, description, image, pdf) ==
    LET oid == ensure_oid(event_id)
        d0 == <<>>
        d1 == IF Truthy(name) /\ Truthy(Strip(name))
              THEN Update(d0, "name" :> Strip(name)) ELSE d0
        d2 == IF Truthy(description) /\ Truthy(Strip(description))
              THEN Update(d1, "description" :> Strip(description)) ELSE d1
        d3 == Update(d2, FileFields(image, "image", <<"image/jpeg">>))
        update_data == Update(d3, FileFields(pdf, "pdf", <<"application/pdf">>))
    IN IF ~oid.ok THEN [raised |-> TRUE, status |-> oid.status, detail |-> oid.detail]
       ELSE IF ~Found(coll, oid.value)
       THEN [raised |-> TRUE, status |-> 404, detail |-> "Event not found"]
       ELSE IF DOMAIN update_data = {}
       THEN [raised |-> TRUE, status |-> 400, detail |-> "No update data provided"]
       ELSE [raised |-> FALSE, oid |-> oid.value, update_data |-> update_data]

\* UpdateResult.matched_count of update_one({"_id": oid}, ...)
matched_count(coll, oid) == IF oid \in DOMAIN coll THEN 1 ELSE 0

\* Lines 658-659: update_one and the success response, whatever update_one matched.
update_event_write(coll, oid, update_data) ==
    Result(update_one(coll, oid, update_data), 200, "Event updated successfully", <<>>,
           <<"update_one">>)

(***************************************************************************)
(* Contact profile: single-document CRUD (src/main.py 260-309).  These     *)
(* routes stand in the earlier version of the file that is kept as a       *)
(* commented-out block; the live code from line 313 on registers no        *)
(* /contact route.  They are modelled as that block writes them.           *)
(***************************************************************************)
CONTACT_ID == "contact_profile"

ContactFields == {"phone", "email", "location", "map_embed", "hero_image_url"}

default_contact == ("_id" :> CONTACT_ID) @@ [f \in ContactFields |-> <<>>]

\* find_one_and_update({"_id": key}, {"$set": upd}, upsert=True)
find_one_and_update_upsert(coll, key, upd) ==
    (key :> Update(IF key \in DOMAIN coll THEN coll[key] ELSE <<>>, Without(upd, {"_id"})))
    @@ coll

\* s contains the character c
Contains(s, c) == \E i \in 1..Len(s) : s[i] = c

get_contact(coll) ==
    Result(coll, 200, "",
           IF Found(coll, CONTACT_ID) THEN find_one(coll, CONTACT_ID) ELSE default_contact,
           <<"find_one">>)

upsert_contact(coll, phone, email, location, map_embed, hero_image_url) ==
    LET payload == ("_id" :> CONTACT_ID)
                   @@ ("phone" :> Strip(phone)) @@ ("email" :> Strip(email))
                   @@ ("location" :> Strip(location)) @@ ("map_embed" :> Strip(map_embed))
                   @@ ("hero_image_url" :> Strip(hero_image_url))
        after == find_one_and_update_upsert(coll, CONTACT_ID, payload)
    IN IF Truthy(email) /\ ~Contains(email, "@")
       THEN Result(coll, 400, "Invalid email", <<>>, <<>>)
       ELSE Result(after, 200, "Contact profile saved", find_one(after, CONTACT_ID),
                   <<"find_one_and_update">>)

clear_contact(coll) ==
    Result(delete_one(coll, CONTACT_ID), 200, "Contact profile cleared", <<>>, <<"delete_one">>)


(***************************************************************************)
(* Admin credentials and feedback (src/main.py 327-329, 424-428, 672-695). *)
(***************************************************************************)
\* os.getenv(name, default) in an environment: a function from the set names to values
getenv(env, name, default) == IF name \in DOMAIN env THEN env[name] ELSE default

ADMIN_USERNAME(env) == getenv(env, "ADMIN_USERNAME", <<"a", "d", "m", "i", "n">>)
ADMIN_PASSWORD(env) == getenv(env, "ADMIN_PASSWORD", <<"a", "d", "m", "i", "n">>)

\* The configured pair, read once at import
Configured(env) == [username |-> ADMIN_USERNAME(env), password |-> ADMIN_PASSWORD(env)]

login(config, username, password) ==
    IF username = config.username /\ password = config.password
    THEN Result(<<>>, 200, "Login successful", <<>>, <<>>)
    ELSE Result(<<>>, 401, "Invalid username or password", <<>>, <<>>)

submit_feedback(coll, new_id, utcnow, name, email, message) ==
    IF ~Truthy(Strip(message))
    THEN Result(coll, 400, "Feedback message required", <<>>, <<>>)
    ELSE Result(insert_one(coll, new_id,
                           ("name" :> Strip(name)) @@ ("email" :> Strip(email))
                           @@ ("message" :> Strip(message)) @@ ("created_at" :> utcnow)),
                200, "Feedback submitted successfully", <<>>, <<"insert_one">>)

\* find({}, {"_id": 0}): every document in natural (insertion) order, without its _id
find_all_no_id(coll) ==
    LET desc == SortedIdsDesc(DOMAIN coll)
        n == Len(desc)
    IN [k \in 1..n |-> Without(find_one(coll, desc[n + 1 - k]), {"_id"})]

\* `and` in place of `or`: refused only when both values are wrong
view_feedback_both(coll, config, username, password) ==
    IF username # config.username /\ password # config.password
    THEN Result(coll, 401, "Unauthorized", <<>>, <<>>)
    ELSE Result(coll, 200, "", find_all_no_id(coll), <<"find">>)

view_feedback(coll, config, username, password) ==
    IF username # config.username \/ password # config.password
    THEN Result(coll, 401, "Unauthorized", <<>>, <<>>)
    ELSE Result(coll, 200, "", find_all_no_id(coll), <<"find">>)

(***************************************************************************)
(* Requests.                                                               *)
(***************************************************************************)
Ids == FirstId..(FirstId + MaxIds - 1)

\* Malformed ids: a character short, and a non-hex character in a string of the right length.
MalformedIds ==
    {SubSeq(OidStr(FirstId), 2, OID_LEN), <<"x">> \o SubSeq(OidStr(FirstId), 2, OID_LEN)}

\* Well-formed ids in str(ObjectId) form and one in upper case, and the malformed ones.
IdInputs == {OidStr(i) : i \in Ids} \cup {Upper(OidStr(FirstId))} \cup MalformedIds

NameInputs == {<<" ", "o", "m">>}
LanguageInputs == {<<"t", "e">>}
DescriptionInputs == {<<>>}
CategoryInputs == {<<" ", "k", "a", "l", "i">>, <<"d", "u", "r", "g", "a">>, <<>>}

\* Files: a name with a known extension and no declared type; a declared type;
\* an extension foreign to the slot and no declared type; a zero-byte file;
\* a file part with an empty filename.
ImageInputs == {UploadFile(<<"a", ".", "p", "n", "g">>, None, <<"01">>)}
PdfInputs == {UploadFile(<<"m", ".", "p", "d", "f">>, <<"application/pdf">>, <<"01">>)}
NewPdfInputs == {UploadFile(<<"n", ".", "t", "x", "t">>, None, <<"02">>)}
AudioInputs == {UploadFile(<<"s", ".", "m", "p", "3">>, None, <<"01">>)}
NewAudioInputs == {UploadFile(<<"z", ".", "m", "p", "3">>, <<"audio/ogg">>, <<>>)}

EventNameInputs == {<<"p", "u", "j", "a">>, <<" ">>}
NewEventNameInputs == {<<" ">>, <<" ", "p", "u", "j", "a">>}
NewEventDescriptionInputs == {None, <<"e", " ">>}
EventImageInputs == {UploadFile(<<>>, <<"image/png">>, <<"01">>)}
EventPdfInputs == {UploadFile(<<"z", ".", "p", "d", "f">>, None, <<>>)}

\* Contact fields: left blank, a value, a padded value; an email without an @.
PhoneInputs == {<<>>, <<"1">>, <<" ", "2", " ">>}
EmailInputs == {<<>>, <<"a", "@", "b">>, <<"a", "b">>}
LocationInputs == {<<>>, <<"x">>}
MapEmbedInputs == {<<>>, <<"m">>}
HeroImageUrlInputs == {<<>>, <<"h">>}

\* Environments: nothing set, and both admin variables set to distinct values.
Environments ==
    {<<>>, ("ADMIN_USERNAME" :> <<"r", "o", "o", "t">>) @@ ("ADMIN_PASSWORD" :> <<"s", "3">>)}

\* Credentials: the defaults and the set values exactly, in another case, padded, empty.
CredentialInputs ==
    {<<"a", "d", "m", "i", "n">>, <<"A", "d", "m", "i", "n">>, <<"r", "o", "o", "t">>,
     <<"s", "3">>, <<"s", "3", " ">>, <<>>}

FeedbackNameInputs == {<<" ", "a">>}
FeedbackEmailInputs == {<<"e", "@", "x">>}
FeedbackMessageInputs == {<<"h", "i", " ">>, <<"\t", "o", "m">>, <<" ">>, <<>>}

\* datetime.utcnow() at the moment of the insert
UtcNowInputs == {1, 2}

Optional(files) == files \cup {NoFile}

Respond(op, r) == resp' = [op |-> op, status |-> r.status, detail |-> r.detail]

(***************************************************************************)
(* Actions: one per handler, over the sets its inputs are drawn from.      *)
(***************************************************************************)
Init ==
    /\ mantras = <<>>
    /\ events = <<>>
    /\ nextId = FirstId
    /\ deleted = {}
    /\ resp = [op |-> "start", status |-> 200, detail |-> ""]
    /\ contacts = <<>>
    /\ feedback = <<>>
    /\ admin = Configured(<<>>)
    /\ pending = Idle

UploadMantra(audios) ==
    \E n \in NameInputs, l \in LanguageInputs, d \in DescriptionInputs, c \in CategoryInputs,
       i \in ImageInputs, p \in PdfInputs, a \in audios :
        LET r == upload_mantra(mantras, nextId, n, l, d, c, i, p, a)
        IN /\ nextId \in Ids
           /\ mantras' = r.coll
           /\ nextId' = IF r.status = 200 THEN nextId + 1 ELSE nextId
           /\ Respond("upload_mantra", r)
           /\ UNCHANGED <<events, deleted, others>>

ListMantras ==
    /\ Respond("list_mantras", list_mantras(mantras))
    /\ UNCHANGED <<mantras, events, nextId, deleted, others>>

GetMantra ==
    \E id \in IdInputs :
        /\ Respond("get_mantra", get_mantra(mantras, id))
        /\ UNCHANGED <<mantras, events, nextId, deleted, others>>

GetMantraImage ==
    \E id \in IdInputs :
        /\ Respond("get_mantra_image", get_mantra_image(mantras, id))
        /\ UNCHANGED <<mantras, events, nextId, deleted, others>>

GetMantraPdf ==
    \E id \in IdInputs :
        /\ Respond("get_mantra_pdf", get_mantra_pdf(mantras, id))
        /\ UNCHANGED <<mantras, events, nextId, deleted, others>>

GetMantraAudio ==
    \E id \in IdInputs :
        /\ Respond("get_mantra_audio", get_mantra_audio(mantras, id))
        /\ UNCHANGED <<mantras, events, nextId, deleted, others>>

EditMantra(images, pdfs, audios) ==
    \E id \in IdInputs, n \in NameInputs, l \in LanguageInputs, d \in DescriptionInputs,
       c \in CategoryInputs, i \in images, p \in pdfs, a \in audios :
        LET r == edit_mantra(mantras, id, n, l, d, c, i, p, a)
        IN /\ mantras' = r.coll
           /\ Respond("edit_mantra", r)
           /\ UNCHANGED <<events, nextId, deleted, others>>

DeleteMantra ==
    \E id \in IdInputs :
        LET r == delete_mantra(mantras, id)
        IN /\ mantras' = r.coll
           /\ deleted' = IF r.status = 200 THEN deleted \cup {ensure_oid(id).value} ELSE deleted
           /\ Respond("delete_mantra", r)
           /\ UNCHANGED <<events, nextId, others>>

CreateEvent(images, pdfs) ==
    \E n \in EventNameInputs, d \in DescriptionInputs, i \in images, p \in pdfs :
        LET r == create_event(events, nextId, n, d, i, p)
        IN /\ nextId \in Ids
           /\ events' = r.coll
           /\ nextId' = IF r.status = 200 THEN nextId + 1 ELSE nextId
           /\ Respond("create_event", r)
           /\ UNCHANGED <<mantras, deleted, others>>

ListEvents ==
    /\ Respond("list_events", list_events(events))
    /\ UNCHANGED <<mantras, events, nextId, deleted, others>>

GetEventImage ==
    \E id \in IdInputs :
        /\ Respond("get_event_image", get_event_image(events, id))
        /\ UNCHANGED <<mantras, events, nextId, deleted, others>>

GetEventPdf ==
    \E id \in IdInputs :
        /\ Respond("get_event_pdf", get_event_pdf(events, id))
        /\ UNCHANGED <<mantras, events, nextId, deleted, others>>

UpdateEvent(descriptions, images, pdfs) ==
    \E id \in IdInputs, n \in NewEventNameInputs, d \in descriptions, i \in images, p \in pdfs :
        LET r == update_event(events, id, n, d, i, p)
        IN /\ events' = r.coll
           /\ Respond("update_event", r)
           /\ UNCHANGED <<mantras, nextId, deleted, others>>

DeleteEvent ==
    \E id \in IdInputs :
        LET r == delete_event(events, id)
        IN /\ events' = r.coll
           /\ deleted' = IF r.status = 200 THEN deleted \cup {ensure_oid(id).value} ELSE deleted
           /\ Respond("delete_event", r)
           /\ UNCHANGED <<mantras, nextId, others>>

GetContact ==
    /\ Respond("get_contact", get_contact(contacts))
    /\ UNCHANGED <<mantras, events, nextId, deleted, contacts, feedback, admin, pending>>

UpsertContact ==
    \E ph \in PhoneInputs, em \in EmailInputs, lo \in LocationInputs, me \in MapEmbedInputs,
       hi \in HeroImageUrlInputs :
        LET r == upsert_contact(contacts, ph, em, lo, me, hi)
        IN /\ contacts' = r.coll
           /\ Respond("upsert_contact", r)
           /\ UNCHANGED <<mantras, events, nextId, deleted, feedback, admin, pending>>

ClearContact ==
    LET r == clear_contact(contacts)
    IN /\ contacts' = r.coll
       /\ Respond("clear_contact", r)
       /\ UNCHANGED <<mantras, events, nextId, deleted, feedback, admin, pending>>

Login ==
    \E u \in CredentialInputs, p \in CredentialInputs :
        /\ Respond("login", login(admin, u, p))
        /\ UNCHANGED <<mantras, events, nextId, deleted, contacts, feedback, admin, pending>>

SubmitFeedback ==
    \E n \in FeedbackNameInputs, e \in FeedbackEmailInputs, m \in FeedbackMessageInputs,
       t \in UtcNowInputs :
        LET r == submit_feedback(feedback, nextId, t, n, e, m)
        IN /\ nextId \in Ids
           /\ feedback' = r.coll
           /\ nextId' = IF r.status = 200 THEN nextId + 1 ELSE nextId
           /\ Respond("submit_feedback", r)
           /\ UNCHANGED <<mantras, events, deleted, contacts, admin, pending>>

ViewFeedback ==
    \E u \in CredentialInputs, p \in CredentialInputs :
        LET r == view_feedback(feedback, admin, u, p)
        IN /\ feedback' = r.coll
           /\ Respond("view_feedback", r)
           /\ UNCHANGED <<mantras, events, nextId, deleted, contacts, admin, pending>>

\* An update_event request up to its find_one: refused, or left in flight.
UpdateEventFind(descriptions, images, pdfs) ==
    \E id \in IdInputs, n \in NewEventNameInputs, d \in descriptions, i \in images, p \in pdfs :
        LET f == update_event_find(events, id, n, d, i, p)
        IN /\ pending.stage # "found"
           /\ IF f.raised
              THEN /\ resp' = [op |-> "update_event", status |-> f.status, detail |-> f.detail]
                   /\ pending' = Idle
              ELSE /\ resp' = resp
                   /\ pending' = [stage |-> "found", oid |-> f.oid,
                                  update_data |-> f.update_data]
           /\ UNCHANGED <<mantras, events, nextId, deleted, contacts, feedback, admin>>

\* The request in flight issues its update_one and answers.
UpdateEventWrite ==
    /\ pending.stage = "found"
    /\ LET r == update_event_write(events, pending.oid, pending.update_data)
       IN /\ events' = r.coll
          /\ Respond("update_event", r)
          /\ pending' = [stage |-> "written", oid |-> pending.oid,
                         matched_count |-> matched_count(events, pending.oid)]
    /\ UNCHANGED <<mantras, nextId, deleted, contacts, feedback, admin>>

(***************************************************************************)
(* Specifications.  SpecMantras and SpecEvents drive one collection with   *)
(* its full input sets; Spec drives both with the files cut down.          *)
(***************************************************************************)
NextMantras ==
    \/ UploadMantra(Optional(AudioInputs))
    \/ ListMantras
    \/ GetMantra
    \/ GetMantraImage
    \/ GetMantraPdf
    \/ GetMantraAudio
    \/ EditMantra({NoFile}, Optional(NewPdfInputs), Optional(NewAudioInputs))
    \/ DeleteMantra

SpecMantras == Init /\ [][NextMantras]_vars

NextEvents ==
    \/ CreateEvent(Optional(EventImageInputs), Optional(EventPdfInputs))
    \/ ListEvents
    \/ GetEventImage
    \/ GetEventPdf
    \/ UpdateEvent(NewEventDescriptionInputs, Optional(EventImageInputs), Optional(EventPdfInputs))
    \/ DeleteEvent

SpecEvents == Init /\ [][NextEvents]_vars

Next ==
    \/ UploadMantra({NoFile})
    \/ ListMantras
    \/ GetMantra
    \/ GetMantraImage
    \/ GetMantraPdf
    \/ GetMantraAudio
    \/ EditMantra({NoFile}, Optional(NewPdfInputs), {NoFile})
    \/ DeleteMantra
    \/ CreateEvent(Optional(EventImageInputs), {NoFile})
    \/ ListEvents
    \/ GetEventImage
    \/ GetEventPdf
    \/ UpdateEvent({None}, Optional(EventImageInputs), {NoFile})
    \/ DeleteEvent

Spec == Init /\ [][Next]_vars
(***************************************************************************)
(* normalize_category on its own: every step normalizes one input.         *)
(***************************************************************************)
Pads == {<<>>, <<" ">>, <<"\t", "\n">>}

Alternate(s) == [i \in 1..Len(s) |-> IF i % 2 = 1 THEN LowerChar(s[i]) ELSE UpperChar(s[i])]

CategoryWords ==
    ALLOWED_CATEGORIES
    \cup {<<"D", "U", "R", "G", "A">>, <<"K", "A", " ", "L", "I">>, <<"K", "A", "L", "I", "!">>,
          <<"L", "A", "L", "I", "T", "A", "D", "E", "V", "I">>}

\* Every word in three letter cases between every pair of pads, the empty string,
\* whitespace alone, and a missing value.
CategoryUniverse ==
    {l \o v \o r : l \in Pads, r \in Pads,
                   v \in UNION {{w, Lower(w), Alternate(w)} : w \in CategoryWords}}
    \cup Pads \cup {None}

NormalizeCategory ==
    \E cat \in CategoryUniverse :
        LET r == normalize_category(cat)
        IN /\ resp' = [op |-> "normalize_category", input |-> cat, ok |-> r.ok,
                       status |-> IF r.ok THEN 200 ELSE r.status,
                       value |-> IF r.ok THEN r.value ELSE None]
           /\ UNCHANGED <<mantras, events, nextId, deleted, others>>

SpecNormalize == Init /\ [][NormalizeCategory]_vars

(***************************************************************************)
(* The contact profile on its own.                                         *)
(***************************************************************************)
NextContact ==
    \/ GetContact
    \/ UpsertContact
    \/ ClearContact

SpecContact == Init /\ [][NextContact]_vars

(***************************************************************************)
(* Feedback and the admin gate, under each environment.                    *)
(***************************************************************************)
InitFeedback ==
    /\ mantras = <<>>
    /\ events = <<>>
    /\ nextId = FirstId
    /\ deleted = {}
    /\ resp = [op |-> "start", status |-> 200, detail |-> ""]
    /\ contacts = <<>>
    /\ feedback = <<>>
    /\ \E env \in Environments : admin = Configured(env)
    /\ pending = Idle

NextFeedback ==
    \/ Login
    \/ SubmitFeedback
    \/ ViewFeedback

SpecFeedback == InitFeedback /\ [][NextFeedback]_vars

(***************************************************************************)
(* Writes interleaved with deletes: update_event in its two store calls,   *)
(* edit_mantra in its one, and the deletes of both collections.            *)
(***************************************************************************)
NextInterleaved ==
    \/ UploadMantra({NoFile})
    \/ EditMantra({NoFile}, {NoFile}, {NoFile})
    \/ DeleteMantra
    \/ CreateEvent({NoFile}, {NoFile})
    \/ UpdateEventFind(NewEventDescriptionInputs, {NoFile}, Optional(EventPdfInputs))
    \/ UpdateEventWrite
    \/ DeleteEvent

SpecInterleaved == Init /\ [][NextInterleaved]_vars

(***************************************************************************)
(* Vocabulary of the properties.                                             *)
(***************************************************************************)
\* s without its leading and trailing whitespace, read off the positions of s
Core(s) ==
    LET inked == {i \in 1..Len(s) : s[i] \notin Whitespace}
    IN IF inked = {} THEN <<>>
       ELSE SubSeq(s, CHOOSE i \in inked : \A j \in inked : i <= j,
                      CHOOSE i \in inked : \A j \in inked : j <= i)

SameLetter(c, d) ==
    \/ c = d
    \/ c \in DOMAIN ToUpper /\ ToUpper[c] = d
    \/ d \in DOMAIN ToUpper /\ ToUpper[d] = c

\* a and b differ only in letter case and in leading and trailing whitespace
SameUpToCaseAndPadding(a, b) ==
    /\ a # None /\ b # None
    /\ Len(Core(a)) = Len(Core(b))
    /\ \A i \in 1..Len(Core(a)) : SameLetter(Core(a)[i], Core(b)[i])

\* cat, trimmed and upper-cased, is one of the six categories
NamesCategory(cat) ==
    cat # None /\ \E k \in ALLOWED_CATEGORIES : SameUpToCaseAndPadding(cat, k)

Normalized(resp_) == resp_.op = "normalize_category"

\* C2: normalize_category treats inputs that differ only in letter case and
\* surrounding whitespace alike: both fail with 400, or both give the same member of
\* the six categories, trimmed and in upper case; and every input (empty, missing and
\* whitespace-only too) that names no category fails with 400.
C2_NormalizeInsensitive ==
    Normalized(resp) =>
        /\ \A b \in CategoryUniverse :
              SameUpToCaseAndPadding(resp.input, b) =>
                  LET rb == normalize_category(b)
                  IN /\ rb.ok = resp.ok
                     /\ ~rb.ok => rb.status = 400 /\ resp.status = 400
                     /\ rb.ok => /\ rb.value = resp.value
                                 /\ resp.value \in ALLOWED_CATEGORIES
                                 /\ SameUpToCaseAndPadding(resp.value, resp.input)
                                 /\ Core(resp.value) = resp.value
                                 /\ \A i \in 1..Len(resp.value) :
                                        resp.value[i] \notin DOMAIN ToUpper
        /\ ~NamesCategory(resp.input) => ~resp.ok /\ resp.status = 400

\* A padded lower-case spelling of a category has been normalized to it.
C2_Witness ==
    /\ Normalized(resp)
    /\ resp.input = <<" ">> \o Lower(BALA_TRIPURA_SUNDARI) \o <<"\t", "\n">>
    /\ resp.ok
    /\ resp.value = BALA_TRIPURA_SUNDARI
\* Categories tried against the handlers in every reachable state: the ones the
\* actions draw, other spellings of a category, and near misses.
CategoryProbes ==
    CategoryInputs
    \cup {<<"L", "a", "k", "s", "h", "m", "i", "\n">>, <<"K", "A", " ", "L", "I">>, <<"\t">>,
          <<" ">> \o Lower(SARASWATHI)}

GoodProbes == {c \in CategoryProbes : NamesCategory(c)}

CategoriesAllowed(coll) == \A id \in DOMAIN coll : coll[id].category \in ALLOWED_CATEGORIES

\* C1: every stored mantra's category is one of the six allowed values, in trimmed
\* upper-case form, and an upload or an edit whose category names none of them
\* answers 400 and leaves the mantras collection as it was.
C1_CategoryAlwaysAllowed ==
    /\ CategoriesAllowed(mantras)
    /\ \A id \in DOMAIN mantras : Core(mantras[id].category) = mantras[id].category
    /\ \A c \in CategoryProbes, n \in NameInputs, l \in LanguageInputs, d \in DescriptionInputs,
          i \in ImageInputs, p \in PdfInputs :
          LET r == upload_mantra(mantras, nextId, n, l, d, c, i, p, NoFile)
          IN IF c \in GoodProbes
             THEN r.status = 200 /\ CategoriesAllowed(r.coll)
             ELSE r.status = 400 /\ r.coll = mantras
    /\ \A id \in IdInputs, c \in CategoryProbes, n \in NameInputs, l \in LanguageInputs,
          d \in DescriptionInputs, p \in Optional(NewPdfInputs) :
          LET r == edit_mantra(mantras, id, n, l, d, c, NoFile, p, NoFile)
          IN IF c \in GoodProbes
             THEN CategoriesAllowed(r.coll)
             ELSE r.status = 400 /\ r.coll = mantras

\* A mantra is stored, and an edit of it with a category outside the six was refused.
C1_Witness ==
    /\ resp.op = "edit_mantra"
    /\ resp.status = 400
    /\ resp.detail = "Invalid category"
    /\ \E id \in DOMAIN mantras : mantras[id].category = KALI
Slots == {"image", "pdf", "audio"}
SlotKeys(slot) == {slot, slot \o "_filename", slot \o "_content_type"}

\* The derived URL field of a slot
UrlKey(slot) == slot \o "_url"

\* The slot's filename is set on the stored record: the key is there and holds a name.
FilenameSet(doc, slot) ==
    (slot \o "_filename") \in DOMAIN doc /\ doc[slot \o "_filename"] # None

\* The list entry of the mantra with this id
ListEntry(body, id) == body[CHOOSE k \in 1..Len(body) : body[k]["_id"] = OidStr(id)]

UrlIffFilenameSet(entry, doc, id) ==
    \A slot \in Slots :
        /\ UrlKey(slot) \in DOMAIN entry <=> FilenameSet(doc, slot)
        /\ UrlKey(slot) \in DOMAIN entry => entry[UrlKey(slot)] = Url("mantras", OidStr(id), slot)

\* C3: in every get-one and list entry of a mantra the derived URL of a slot is there
\* if and only if the slot's filename is set on the stored record, and is then
\* /mantras/{id}/{slot}; so a mantra uploaded without audio has no audio_url, and one
\* uploaded with audio has /mantras/{id}/audio.
C3_UrlIffFilename ==
    \A id \in DOMAIN mantras :
        /\ UrlIffFilenameSet(get_mantra(mantras, OidStr(id)).body, mantras[id], id)
        /\ UrlIffFilenameSet(ListEntry(list_mantras(mantras).body, id), mantras[id], id)

\* The payload of a slot is absent from a stored record.
PayloadAbsent(doc, slot) == slot \notin DOMAIN doc \/ doc[slot] = None

\* C4: in both collections, a slot whose binary payload is absent has no filename key
\* and no content-type key either, and the payload key itself is missing: an attachment
\* that was not given is structurally absent, never an empty or None placeholder.
C4_AbsentMeansNoKeys ==
    \A coll \in {mantras, events} : \A id \in DOMAIN coll : \A slot \in Slots :
        PayloadAbsent(coll[id], slot) => SlotKeys(slot) \cap DOMAIN coll[id] = {}

\* What the attachment getter of a slot answers
GetSlot(coll, id, slot) ==
    CASE slot = "image" -> get_mantra_image(coll, id)
      [] slot = "pdf" -> get_mantra_pdf(coll, id)
      [] slot = "audio" -> get_mantra_audio(coll, id)

SameAnswer(r1, r2) == r1.status = r2.status /\ (r1.status = 200 => r1.body = r2.body)

SuppliedSlots(image, pdf, audio) ==
    {slot \in Slots : (CASE slot = "image" -> image [] slot = "pdf" -> pdf
                         [] slot = "audio" -> audio).supplied}

\* C5: a successful edit_mantra changes only the four metadata fields and the slots
\* a file was supplied for: every omitted slot keeps its bytes, filename and content
\* type, its getter answers as before the edit, and every other mantra is untouched.
C5_EditKeepsOmittedSlots ==
    \A id \in IdInputs, n \in NameInputs, l \in LanguageInputs, d \in DescriptionInputs,
       c \in CategoryInputs, i \in Optional(ImageInputs), p \in Optional(NewPdfInputs),
       a \in Optional(NewAudioInputs) :
        LET r == edit_mantra(mantras, id, n, l, d, c, i, p, a)
            oid == ensure_oid(id).value
            kept == Slots \ SuppliedSlots(i, p, a)
        IN r.status = 200 =>
            /\ DOMAIN r.coll = DOMAIN mantras
            /\ \A other \in DOMAIN mantras \ {oid} : r.coll[other] = mantras[other]
            /\ \A slot \in kept :
                  /\ \A k \in SlotKeys(slot) :
                        /\ k \in DOMAIN r.coll[oid] <=> k \in DOMAIN mantras[oid]
                        /\ k \in DOMAIN mantras[oid] => r.coll[oid][k] = mantras[oid][k]
                  /\ SameAnswer(GetSlot(r.coll, id, slot), GetSlot(mantras, id, slot))
            /\ DOMAIN r.coll[oid] \ DOMAIN mantras[oid]
                   \subseteq UNION {SlotKeys(slot) : slot \in SuppliedSlots(i, p, a)}
            /\ DOMAIN mantras[oid] \subseteq DOMAIN r.coll[oid]
            /\ r.coll[oid].name = Core(n)
            /\ r.coll[oid].category \in ALLOWED_CATEGORIES

\* Two mantras are stored; the last request was a successful edit, and one mantra
\* carries the audio an edit gave it beside the pdf it was uploaded with.
C5_Witness ==
    /\ resp.op = "edit_mantra"
    /\ resp.status = 200
    /\ Cardinality(DOMAIN mantras) = 2
    /\ \E id \in DOMAIN mantras :
          /\ mantras[id].audio_filename = <<"z", ".", "m", "p", "3">>
          /\ mantras[id].pdf_filename = <<"m", ".", "p", "d", "f">>
          /\ get_mantra_pdf(mantras, OidStr(id)).body =
                 [content |-> <<"01">>, media_type |-> <<"application/pdf">>]
WellFormedIds == {id \in IdInputs : ensure_oid(id).ok}

\* C6: a deleted mantra stays deleted: get-one, the three attachment getters, an edit
\* with valid input and a delete of an id that is not in the collection all answer 404
\* and leave the collection as it is (an edit never inserts), no deleted id is ever in
\* the collection again, and a successful delete removes that one record and no other.
C6_DeletedStaysGone ==
    /\ deleted \cap DOMAIN mantras = {}
    /\ \A id \in WellFormedIds :
          LET oid == ensure_oid(id).value
              del == delete_mantra(mantras, id)
          IN IF oid \in DOMAIN mantras
             THEN /\ del.status = 200
                  /\ DOMAIN del.coll = DOMAIN mantras \ {oid}
                  /\ \A other \in DOMAIN del.coll : del.coll[other] = mantras[other]
                  /\ get_mantra(del.coll, id).status = 404
                  /\ \A slot \in Slots : GetSlot(del.coll, id, slot).status = 404
                  /\ delete_mantra(del.coll, id).status = 404
             ELSE /\ del.status = 404 /\ del.coll = mantras
                  /\ get_mantra(mantras, id).status = 404
                  /\ \A slot \in Slots : GetSlot(mantras, id, slot).status = 404
                  /\ \A n \in NameInputs, l \in LanguageInputs, d \in DescriptionInputs,
                        c \in CategoryInputs \cap GoodProbes, i \in Optional(ImageInputs),
                        p \in Optional(NewPdfInputs), a \in Optional(NewAudioInputs) :
                        LET r == edit_mantra(mantras, id, n, l, d, c, i, p, a)
                        IN r.status = 404 /\ r.coll = mantras

\* One mantra was deleted and another is still stored, whose image is served; the
\* last request, for an image, was answered 404.
C6_Witness ==
    /\ deleted # {}
    /\ DOMAIN mantras # {}
    /\ \A id \in DOMAIN mantras : get_mantra_image(mantras, OidStr(id)).status = 200
    /\ resp.op = "get_mantra_image"
    /\ resp.status = 404
    /\ resp.detail = "Image not found"
\* The characters of a well-formed id
HexChars == {"0", "1", "2", "3", "4", "5", "6", "7", "8", "9",
             "a", "b", "c", "d", "e", "f", "A", "B", "C", "D", "E", "F"}

WellFormed(id) == Len(id) = OID_LEN /\ \A k \in 1..Len(id) : id[k] \in HexChars

\* Ids tried against the handlers in every reachable state
IdProbes ==
    IdInputs \cup {<<>>, <<"n", "u", "l", "l">>, OidStr(FirstId) \o <<"0">>,
                   SubSeq(OidStr(FirstId), 1, OID_LEN - 1) \o <<"g">>}

Refused(r, coll) ==
    r.status = 400 /\ r.detail = "Invalid ID" /\ r.calls = <<>> /\ r.coll = coll

\* C7: every handler that takes a record id answers an id string that is not a
\* well-formed store identifier with 400, never 404, before it issues any store call,
\* so neither collection changes.
C7_MalformedIdRefused ==
    \A id \in IdProbes :
        ~WellFormed(id) =>
            /\ Refused(get_mantra(mantras, id), mantras)
            /\ Refused(get_mantra_image(mantras, id), mantras)
            /\ Refused(get_mantra_pdf(mantras, id), mantras)
            /\ Refused(get_mantra_audio(mantras, id), mantras)
            /\ Refused(delete_mantra(mantras, id), mantras)
            /\ \A n \in NameInputs, l \in LanguageInputs, d \in DescriptionInputs,
                  c \in CategoryInputs, i \in Optional(ImageInputs),
                  p \in Optional(NewPdfInputs), a \in Optional(NewAudioInputs) :
                  Refused(edit_mantra(mantras, id, n, l, d, c, i, p, a), mantras)
            /\ Refused(get_event_image(events, id), events)
            /\ Refused(get_event_pdf(events, id), events)
            /\ Refused(delete_event(events, id), events)
            /\ \A n \in NewEventNameInputs, d \in NewEventDescriptionInputs,
                  i \in Optional(EventImageInputs), p \in Optional(EventPdfInputs) :
                  Refused(update_event(events, id, n, d, i, p), events)

\* Both collections hold a record, and the last request, an update_event, was
\* refused for its id.
C7_Witness ==
    /\ DOMAIN mantras # {}
    /\ DOMAIN events # {}
    /\ resp.op = "update_event"
    /\ resp.status = 400
    /\ resp.detail = "Invalid ID"
Fallback(slot) ==
    CASE slot = "image" -> <<"image/jpeg">>
      [] slot = "pdf" -> <<"application/pdf">>
      [] slot = "audio" -> <<"audio/mpeg">>

\* The content type the defaulting rule gives a supplied file: the declared type,
\* else the guess from the filename, else the slot's fallback.
DefaultedType(file, slot) ==
    IF Truthy(file.content_type) THEN file.content_type
    ELSE IF Truthy(file.filename) /\ guess_type(file.filename) # None
    THEN guess_type(file.filename)
    ELSE Fallback(slot)

AnyFiles ==
    ImageInputs \cup PdfInputs \cup NewPdfInputs \cup AudioInputs \cup NewAudioInputs
    \cup EventImageInputs \cup EventPdfInputs

\* The file a stored filename came from (the files of the model differ in their names)
FileNamed(filename) == CHOOSE f \in AnyFiles : f.filename = filename

\* An attachment is stored in the slot: the handler wrote the slot's filename.
AttachmentStored(doc, slot) == FilenameSet(doc, slot)

\* C8: an attachment stored by upload_mantra, edit_mantra, create_event or update_event
\* has as its content type the declared type, else the type guessed from the filename
\* extension, else the slot's fallback; it is never None, and the getter serves the
\* attachment with it.
C8_ContentTypeDefaulted ==
    \A coll \in {mantras, events} : \A oid \in DOMAIN coll : \A slot \in Slots :
        AttachmentStored(coll[oid], slot) =>
            LET file == FileNamed(coll[oid][slot \o "_filename"])
                got == get_file(coll, OidStr(oid), slot, "", Fallback(slot))
            IN /\ coll[oid][slot \o "_content_type"] # None
               /\ coll[oid][slot \o "_content_type"] = DefaultedType(file, slot)
               /\ got.status = 200 => got.body.media_type = DefaultedType(file, slot)

\* The stored event behind a list entry
EventOf(entry) == events[HexVal(entry["_id"])]

\* C9: a list_events entry carries the status marker Upcoming Event if and only if
\* the event's description, image and pdf are all absent, and the marker is never
\* written to the stored event.
C9_UpcomingIffBare ==
    /\ \A id \in DOMAIN events : "status" \notin DOMAIN events[id]
    /\ LET body == list_events(events).body
       IN \A k \in 1..Len(body) :
             /\ "status" \in DOMAIN body[k] <=>
                   /\ ~Truthy(Get(EventOf(body[k]), "description"))
                   /\ "image" \notin DOMAIN EventOf(body[k])
                   /\ "pdf" \notin DOMAIN EventOf(body[k])
             /\ "status" \in DOMAIN body[k] => body[k]["status"] = <<"Upcoming Event">>
\* A form field left out, empty, or whitespace only
Blank(x) == x = None \/ Core(x) = <<>>

\* The keys and values an update_event request is to write
Supplied(name, description, image, pdf) ==
    LET f1 == IF Blank(name) THEN <<>> ELSE "name" :> Core(name)
        f2 == IF Blank(description) THEN <<>> ELSE "description" :> Core(description)
        f3 == IF image.supplied
              THEN [image |-> image.data, image_filename |-> image.filename,
                    image_content_type |-> Or(image.content_type, <<"image/jpeg">>)]
              ELSE <<>>
        f4 == IF pdf.supplied
              THEN [pdf |-> pdf.data, pdf_filename |-> pdf.filename,
                    pdf_content_type |-> Or(pdf.content_type, <<"application/pdf">>)]
              ELSE <<>>
    IN f1 @@ f2 @@ f3 @@ f4

NewEventNameProbes == {None, <<" ">>, <<"n", "e", "w", " ">>}
NewEventDescriptionProbes == {None, <<"\t">>, <<"e", " ">>}

\* C10: update_event on a well-formed id answers 404 when the event does not exist;
\* 400, with the event unchanged, when no non-blank name, no non-blank description and
\* no file was supplied; and otherwise writes exactly the non-blank fields and the
\* supplied slots, every other key of the event and every other event staying as it was.
C10_UpdateEventWritesSupplied ==
    \A id \in {OidStr(oid) : oid \in Ids}, n \in NewEventNameProbes, d \in NewEventDescriptionProbes,
       i \in Optional(EventImageInputs), p \in Optional(EventPdfInputs) :
        LET r == update_event(events, id, n, d, i, p)
            oid == ensure_oid(id).value
            want == Supplied(n, d, i, p)
        IN IF oid \notin DOMAIN events
           THEN r.status = 404 /\ r.coll = events
           ELSE IF DOMAIN want = {}
           THEN r.status = 400 /\ r.coll = events
           ELSE /\ r.status = 200
                /\ DOMAIN r.coll = DOMAIN events
                /\ \A other \in DOMAIN events \ {oid} : r.coll[other] = events[other]
                /\ DOMAIN r.coll[oid] = DOMAIN events[oid] \cup DOMAIN want
                /\ \A k \in DOMAIN r.coll[oid] :
                      r.coll[oid][k] = IF k \in DOMAIN want THEN want[k] ELSE events[oid][k]

\* An event has the description an update gave it and the pdf it was created with,
\* and the last request, an update of an event with nothing but blanks, was refused.
C10_Witness ==
    /\ resp.op = "update_event"
    /\ resp.status = 400
    /\ resp.detail = "No update data provided"
    /\ \E id \in DOMAIN events :
          /\ events[id].description = <<"e">>
          /\ "pdf_filename" \in DOMAIN events[id]
          /\ "image" \notin DOMAIN events[id]

\* The value GET /contact returns for a field of the profile
ContactValue(coll, f) == Get(get_contact(coll).body, f)

\* C11: a contact write persists only the fields supplied non-empty: after a successful
\* write every field that GET /contact returns is either the value it returned before
\* the write or a non-empty value, so a blank input never erases a stored non-empty
\* value; and while nothing is stored GET /contact returns the fixed default payload.
C11_ContactWriteKeepsBlankFields ==
    [][/\ contacts = <<>> => get_contact(contacts).body = default_contact
       /\ (resp'.op = "upsert_contact" /\ resp'.status = 200) =>
              \A f \in ContactFields :
                  \/ ContactValue(contacts', f) = ContactValue(contacts, f)
                  \/ ContactValue(contacts', f) # <<>>]_vars

\* Credentials a caller may try: those of the requests and the configured pair itself.
CredentialProbes == CredentialInputs \cup {admin.username, admin.password}

\* The entries disclose the stored feedback: one per stored document, each a stored
\* document as it stands.
Discloses(body, coll) ==
    /\ Len(body) = Cardinality(DOMAIN coll)
    /\ \A id \in DOMAIN coll : \E k \in 1..Len(body) : body[k] = coll[id]

\* C12: GET /feedback discloses the stored feedback if and only if the username and the
\* password both equal the configured admin pair; on a mismatch of either it answers
\* 401 Unauthorized with no content and no store call.  On success the entries carry no
\* _id and the feedback collection is as it was.
C12_FeedbackOnlyForAdmin ==
    \A u \in CredentialProbes, p \in CredentialProbes :
        LET r == view_feedback(feedback, admin, u, p)
        IN IF u = admin.username /\ p = admin.password
           THEN /\ r.status = 200
                /\ Discloses(r.body, feedback)
                /\ \A k \in 1..Len(r.body) : "_id" \notin DOMAIN r.body[k]
                /\ r.coll = feedback
           ELSE /\ r.status = 401
                /\ r.detail = "Unauthorized"
                /\ r.body = <<>>
                /\ r.calls = <<>>
                /\ r.coll = feedback

\* The admin under a set environment has read two stored submissions.
C12_Witness ==
    /\ resp.op = "view_feedback"
    /\ resp.status = 200
    /\ Cardinality(DOMAIN feedback) = 2
    /\ admin.username # admin.password

\* The attachment route a URL of the form /{collection}/{id}/{slot} is dispatched to
Fetch(ms, es, url) ==
    LET collection == url[2]
        id == SubSeq(url, 4, Len(url) - 2)
        slot == url[Len(url)]
    IN CASE collection = "mantras" /\ slot = "image" -> get_mantra_image(ms, id)
         [] collection = "mantras" /\ slot = "pdf" -> get_mantra_pdf(ms, id)
         [] collection = "mantras" /\ slot = "audio" -> get_mantra_audio(ms, id)
         [] collection = "events" /\ slot = "image" -> get_event_image(es, id)
         [] collection = "events" /\ slot = "pdf" -> get_event_pdf(es, id)

\* An entry carries a non-null URL for a slot.
HasUrl(entry, slot) == UrlKey(slot) \in DOMAIN entry /\ entry[UrlKey(slot)] # None

\* The entry's URL of a slot, when it has one, fetches the bytes stored in that slot of
\* the record; and when the slot can be fetched at all the entry has its URL.
EntryAgrees(entry, collection, doc, id, slot) ==
    /\ HasUrl(entry, slot) =>
           LET r == Fetch(mantras, events, entry[UrlKey(slot)])
           IN r.status = 200 /\ r.body.content = doc[slot]
    /\ Fetch(mantras, events, Url(collection, OidStr(id), slot)).status = 200 =>
           HasUrl(entry, slot)

\* The list entry of the event with this id
EventEntry(body, id) == body[CHOOSE k \in 1..Len(body) : body[k]["_id"] = OidStr(id)]

\* C13: listing and fetching agree.  For every stored mantra, in its get-one entry and
\* its list entry, and for every stored event in its list entry: a slot's URL that is
\* there and not null fetches the stored bytes of that slot (not 404), and a slot that
\* can be fetched has its URL in the entry.
C13_ListFetchAgree ==
    /\ \A id \in DOMAIN mantras, slot \in Slots :
          /\ EntryAgrees(get_mantra(mantras, OidStr(id)).body, "mantras", mantras[id], id, slot)
          /\ EntryAgrees(ListEntry(list_mantras(mantras).body, id), "mantras", mantras[id],
                         id, slot)
    /\ \A id \in DOMAIN events, slot \in {"image", "pdf"} :
          EntryAgrees(EventEntry(list_events(events).body, id), "events", events[id], id, slot)

\* C14: an edit answers success only if its write was applied to a record that existed
\* at the moment of the write, under every interleaving with a delete of the same id:
\* an update_event that has answered success matched a record with its update_one, and
\* an edit_mantra answers success only for an id that is in the collection.
C14_SuccessMeansApplied ==
    /\ (pending.stage = "written" /\ resp.op = "update_event" /\ resp.status = 200) =>
           pending.matched_count = 1
    /\ \A id \in IdInputs, n \in NameInputs, l \in LanguageInputs, d \in DescriptionInputs,
          c \in CategoryInputs :
           LET r == edit_mantra(mantras, id, n, l, d, c, NoFile, NoFile, NoFile)
           IN r.status = 200 => ensure_oid(id).value \in DOMAIN mantras
                                /\ DOMAIN r.coll = DOMAIN mantras

====
